---------------------------- MODULE Spec2Model ----------------------------
(***************************************************************************)
(* Verification model of the housing-prices extraction pipeline:           *)
(*   - extract_html       (src/src/carousell_scraper.py), the page         *)
(*                         materializer driving one browser session;       *)
(*   - extract_from_card  (src/src/carousell_scraper.py), the title and    *)
(*                         the feature classification of the extractor;    *)
(*   - extract_listings   (src/src/carousell_scraper.py), the collector;   *)
(*   - batch_parse        (src/src/parser.py), the normalization pool.     *)
(* Each component has its own specification over the shared variables; the *)
(* variables of the other components stay at their idle values.            *)
(***************************************************************************)
EXTENDS Integers, Sequences, FiniteSets, TLC

VARIABLES
    \* ---- extract_html ----
    pc,            \* position of the call inside extract_html
    max_clicks,    \* argument max_clicks (None or a number)
    click_count,   \* local click_count
    session,       \* "none" | "open" | "closed": the Chrome driver session
    quit_calls,    \* number of driver.quit() calls made
    raised,        \* exception propagating out of the try block, or "none"
    result,        \* what the call gave its caller
    log,           \* the driver commands issued so far, with their outcomes
    show_more_button, \* local of _click_show_more: the element the wait returned
    targets,       \* the element each load-more command was applied to
    \* ---- batch_parse ----
    bpc,           \* position of the calling thread inside batch_parse
    titles,        \* df[text_column], one title per record
    max_workers,   \* argument max_workers
    fstate,        \* state of the future of each record
    resp,          \* value / exception held by each future
    answer,        \* what the backend answered to each title
    completed,     \* the records in the order their calls completed
    calls,         \* number of backend invocations made per record
    parsed,        \* the list built from executor.map's iterator
    bresult,       \* the building / trans_type columns written to df
    \* ---- extract_from_card (features) ----
    cpc,           \* position inside the feature loop
    card,          \* children of the features div, in document order
    cidx,          \* index of the next child to visit
    rec,           \* the fields size / bedrooms / bathrooms / remarks
    \* ---- extract_from_card (title) ----
    tpc,           \* position inside the title extraction
    p_tags,        \* the <p> elements of the card, in document order
    title,         \* the field title
    \* ---- extract_listings ----
    lpc,           \* position inside extract_listings
    html,          \* the <div> elements of the page, in document order
    lidx,          \* index of the next listing card to extract
    listings,      \* the list of records built so far
    lresult,       \* what extract_listings gave its caller
    \* ---- response split ----
    spc,           \* position of the split check
    sin,           \* response string handed to the split
    sout           \* the [building, trans_type] pair produced

lmVars    == <<show_more_button, targets>>
matVars   == <<pc, max_clicks, click_count, session, quit_calls, raised, result, log,
               lmVars>>
normVars  == <<bpc, titles, max_workers, fstate, resp, answer, completed,
               calls, parsed, bresult>>
cardVars  == <<cpc, card, cidx, rec>>
titleVars == <<tpc, p_tags, title>>
listVars  == <<lpc, html, lidx, listings, lresult>>
splitVars == <<spc, sin, sout>>
vars      == <<matVars, normVars, cardVars, titleVars, listVars, splitVars>>

-----------------------------------------------------------------------------
(* Bounds of the model *)

\* largest max_clicks argument tried
MaxClicksArg == 2
\* number of further result pages the site can serve (bounds the unlimited loop)
MaxPages == 2

\* largest number of records handed to batch_parse
MaxRecords == 2
\* largest max_workers argument tried
MaxWorkers == 2
\* longest response string handed to the split, in atoms
MaxRespLen == 3

\* largest number of children of the features div of a card
MaxNodes == 3
\* largest number of <p> elements of a card
MaxPTags == 2
\* largest number of <div> elements of a page
MaxDivs == 3

\* max_clicks=None, the default: no limit on the number of loads
None == -1

-----------------------------------------------------------------------------
(* Idle values of the components a specification does not exercise *)

MatIdle ==
    /\ pc = "idle" /\ max_clicks = None /\ click_count = 0
    /\ session = "none" /\ quit_calls = 0 /\ raised = "none"
    /\ result = "none" /\ log = <<>>
    /\ show_more_button = 0 /\ targets = <<>>

NormIdle ==
    /\ bpc = "idle" /\ titles = <<>> /\ max_workers = 0
    /\ fstate = <<>> /\ resp = <<>> /\ answer = <<>> /\ completed = <<>>
    /\ calls = <<>> /\ parsed = <<>> /\ bresult = <<>>

CardIdle ==
    /\ cpc = "idle" /\ card = <<>> /\ cidx = 0 /\ rec = <<>>

TitleIdle ==
    /\ tpc = "idle" /\ p_tags = <<>> /\ title = <<>>

ListIdle ==
    /\ lpc = "idle" /\ html = <<>> /\ lidx = 0 /\ listings = <<>>
    /\ lresult = "none"

SplitIdle ==
    /\ spc = "idle" /\ sin = <<>> /\ sout = <<>>

-----------------------------------------------------------------------------
(***************************************************************************)
(* extract_html: the page materializer                                     *)
(***************************************************************************)

Ev(c, r) == [cmd |-> c, res |-> r]

\* number of log entries satisfying a command / outcome pair
Count(c, r) == Cardinality({i \in 1..Len(log) : log[i] = Ev(c, r)})

\* an exception leaves the try block: control goes to the finally clause
Propagate(exc) ==
    /\ raised' = exc
    /\ pc' = "finally"

\* extract_html touches nothing of the other components
MatFrame == UNCHANGED <<normVars, cardVars, titleVars, listVars, splitVars>>

InitMat ==
    /\ pc = "open"
    /\ max_clicks \in {None} \cup (0..MaxClicksArg)
    /\ click_count = 0
    /\ session = "none"
    /\ quit_calls = 0
    /\ raised = "none"
    /\ result = "none"
    /\ log = <<>>
    /\ show_more_button = 0
    /\ targets = <<>>
    /\ NormIdle /\ CardIdle /\ SplitIdle /\ TitleIdle /\ ListIdle

\* driver = webdriver.Chrome(...); driver.get(search_result_page)
OpenSession ==
    /\ pc = "open"
    /\ session' = "open"
    /\ log' = Append(log, Ev("get", "ok"))
    /\ pc' = "filter_input_wait"
    /\ UNCHANGED <<max_clicks, click_count, quit_calls, raised, result>>
    /\ UNCHANGED lmVars
    /\ MatFrame

\* _set_location_filter: wait (10s) for the location input to be visible
FilterInputWait ==
    /\ pc = "filter_input_wait"
    /\ \/ /\ log' = Append(log, Ev("filter_input_wait", "ok"))
          /\ pc' = "filter_type"
          /\ UNCHANGED raised
       \/ /\ log' = Append(log, Ev("filter_input_wait", "timeout"))
          /\ Propagate("TimeoutException")
    /\ UNCHANGED <<max_clicks, click_count, session, quit_calls, result>>
    /\ UNCHANGED lmVars
    /\ MatFrame

\* _set_location_filter: location_input.clear(); send_keys(location)
FilterType ==
    /\ pc = "filter_type"
    /\ \/ /\ log' = Append(log, Ev("filter_type", "ok"))
          /\ pc' = "filter_option_wait"
          /\ UNCHANGED raised
       \/ /\ log' = Append(log, Ev("filter_type", "error"))
          /\ Propagate("WebDriverException")
    /\ UNCHANGED <<max_clicks, click_count, session, quit_calls, result>>
    /\ UNCHANGED lmVars
    /\ MatFrame

\* (mutant) the filter timeout is printed and swallowed, the call goes on
FilterOptionTimeoutSwallowed ==
    /\ log' = Append(log, Ev("filter_option_wait", "timeout"))
    /\ pc' = "search_wait"
    /\ UNCHANGED raised

\* _set_location_filter: except TimeoutException: print(...); raise
FilterOptionTimeout ==
    /\ log' = Append(log, Ev("filter_option_wait", "timeout"))
    /\ Propagate("TimeoutException")

\* click_checkbox_by_label: wait (10s) for the matching label to be clickable
FilterOptionWait ==
    /\ pc = "filter_option_wait"
    /\ \/ /\ log' = Append(log, Ev("filter_option_wait", "ok"))
          /\ pc' = "filter_option_click"
          /\ UNCHANGED raised
       \/ FilterOptionTimeout
    /\ UNCHANGED <<max_clicks, click_count, session, quit_calls, result>>
    /\ UNCHANGED lmVars
    /\ MatFrame

\* click_checkbox_by_label: script click on the label
FilterOptionClick ==
    /\ pc = "filter_option_click"
    /\ \/ /\ log' = Append(log, Ev("filter_option_click", "ok"))
          /\ pc' = "search_wait"
          /\ UNCHANGED raised
       \/ /\ log' = Append(log, Ev("filter_option_click", "error"))
          /\ Propagate("WebDriverException")
    /\ UNCHANGED <<max_clicks, click_count, session, quit_calls, result>>
    /\ UNCHANGED lmVars
    /\ MatFrame

\* _click_search_button: wait (20s) for the Search button to be clickable;
\* a timeout is caught and printed, the helper returns normally
SearchWait ==
    /\ pc = "search_wait"
    /\ \/ /\ log' = Append(log, Ev("search_wait", "ok"))
          /\ pc' = "search_click"
       \/ /\ log' = Append(log, Ev("search_wait", "timeout"))
          /\ pc' = "loop"
    /\ UNCHANGED <<max_clicks, click_count, session, quit_calls, raised, result>>
    /\ UNCHANGED lmVars
    /\ MatFrame

\* (mutant) a failed search click is swallowed like a timeout
SearchClickFailedSwallowed ==
    /\ log' = Append(log, Ev("search_click", "error"))
    /\ pc' = "loop"
    /\ UNCHANGED raised

\* what _click_search_button does when the script click itself fails:
\* only TimeoutException is caught, anything else leaves extract_html
SearchClickFailed ==
    /\ log' = Append(log, Ev("search_click", "error"))
    /\ Propagate("WebDriverException")

\* _click_search_button: script click on the Search button
SearchClick ==
    /\ pc = "search_click"
    /\ \/ /\ log' = Append(log, Ev("search_click", "ok"))
          /\ pc' = "ready_wait"
          /\ UNCHANGED raised
       \/ SearchClickFailed
    /\ UNCHANGED <<max_clicks, click_count, session, quit_calls, result>>
    /\ UNCHANGED lmVars
    /\ MatFrame

\* (mutant) the readiness timeout is re-raised like the filter timeout
ReadyTimeoutRaised ==
    /\ log' = Append(log, Ev("ready_wait", "timeout"))
    /\ Propagate("TimeoutException")

\* what _click_search_button does when the readiness wait times out
ReadyTimeout ==
    /\ log' = Append(log, Ev("ready_wait", "timeout"))
    /\ pc' = "loop"
    /\ UNCHANGED raised

\* _click_search_button: wait (20s) for "Show more results" to be clickable
ReadyWait ==
    /\ pc = "ready_wait"
    /\ \/ /\ log' = Append(log, Ev("ready_wait", "ok"))
          /\ pc' = "loop"
          /\ UNCHANGED raised
       \/ ReadyTimeout
    /\ UNCHANGED <<max_clicks, click_count, session, quit_calls, result>>
    /\ UNCHANGED lmVars
    /\ MatFrame

\* (mutant) off-by-one loop bound
LoopCondInclusive == max_clicks = None \/ click_count <= max_clicks

\* while max_clicks is None or click_count < max_clicks
LoopCond == max_clicks = None \/ click_count < max_clicks

LoopTest ==
    /\ pc = "loop"
    /\ pc' = IF LoopCond THEN "lm_wait" ELSE "return"
    /\ UNCHANGED <<max_clicks, click_count, session, quit_calls, raised, result, log>>
    /\ UNCHANGED lmVars
    /\ MatFrame

\* _click_show_more returned True: click_count += 1, next iteration
StepSucceeded ==
    /\ click_count' = click_count + 1
    /\ pc' = "loop"

\* _click_show_more returned False: break
StepFailed ==
    /\ click_count' = click_count
    /\ pc' = "return"

\* a command of _click_show_more takes the element held in show_more_button
AppliedTo(c) ==
    /\ targets' = Append(targets, [cmd |-> c, el |-> show_more_button])
    /\ UNCHANGED show_more_button

\* _click_show_more: wait (40s) for "Show more results" to be clickable.
\* The site serves at most MaxPages further pages, after which the control
\* is gone.
LmWait ==
    /\ pc = "lm_wait"
    /\ \/ /\ Count("lm_wait", "ok") < MaxPages
          /\ log' = Append(log, Ev("lm_wait", "ok"))
          /\ show_more_button' = Count("lm_wait", "ok") + 1
          /\ pc' = "lm_scroll"
          /\ UNCHANGED click_count
       \/ /\ log' = Append(log, Ev("lm_wait", "timeout"))
          /\ StepFailed
          /\ UNCHANGED show_more_button
    /\ UNCHANGED <<max_clicks, session, quit_calls, raised, result, targets>>
    /\ MatFrame

\* _click_show_more: scrollIntoView({block: 'center'})
LmScroll ==
    /\ pc = "lm_scroll"
    /\ \/ /\ log' = Append(log, Ev("lm_scroll", "ok"))
          /\ pc' = "lm_click"
          /\ UNCHANGED click_count
       \/ /\ log' = Append(log, Ev("lm_scroll", "error"))
          /\ StepFailed
    /\ UNCHANGED <<max_clicks, session, quit_calls, raised, result>>
    /\ AppliedTo("lm_scroll")
    /\ MatFrame

\* (mutant) the fallback is taken after any failure of the direct click
LmClickFallbackOnAnyError ==
    /\ pc = "lm_click"
    /\ \/ /\ log' = Append(log, Ev("lm_click", "ok"))
          /\ StepSucceeded
       \/ /\ log' = Append(log, Ev("lm_click", "intercepted"))
          /\ pc' = "lm_js_click"
          /\ UNCHANGED click_count
       \/ /\ log' = Append(log, Ev("lm_click", "error"))
          /\ pc' = "lm_js_click"
          /\ UNCHANGED click_count
    /\ UNCHANGED <<max_clicks, session, quit_calls, raised, result>>
    /\ AppliedTo("lm_click")
    /\ MatFrame

\* _click_show_more: show_more_button.click()
LmClick ==
    /\ pc = "lm_click"
    /\ \/ /\ log' = Append(log, Ev("lm_click", "ok"))
          /\ StepSucceeded
       \/ /\ log' = Append(log, Ev("lm_click", "intercepted"))
          /\ pc' = "lm_js_click"
          /\ UNCHANGED click_count
       \/ /\ log' = Append(log, Ev("lm_click", "error"))
          /\ StepFailed
    /\ UNCHANGED <<max_clicks, session, quit_calls, raised, result>>
    /\ AppliedTo("lm_click")
    /\ MatFrame

\* (mutant) a failed fallback click still reports success
LmJsClickErrorCounted ==
    /\ pc = "lm_js_click"
    /\ \/ /\ log' = Append(log, Ev("lm_js_click", "ok"))
          /\ StepSucceeded
       \/ /\ log' = Append(log, Ev("lm_js_click", "error"))
          /\ StepSucceeded
    /\ UNCHANGED <<max_clicks, session, quit_calls, raised, result>>
    /\ AppliedTo("lm_js_click")
    /\ MatFrame

\* _click_show_more: script click fallback after an intercepted click
LmJsClick ==
    /\ pc = "lm_js_click"
    /\ \/ /\ log' = Append(log, Ev("lm_js_click", "ok"))
          /\ StepSucceeded
       \/ /\ log' = Append(log, Ev("lm_js_click", "error"))
          /\ StepFailed
    /\ UNCHANGED <<max_clicks, session, quit_calls, raised, result>>
    /\ AppliedTo("lm_js_click")
    /\ MatFrame

\* return driver.page_source (the value is held until finally has run)
ReturnSource ==
    /\ pc = "return"
    /\ log' = Append(log, Ev("page_source", "ok"))
    /\ pc' = "finally"
    /\ UNCHANGED <<max_clicks, click_count, session, quit_calls, raised, result>>
    /\ UNCHANGED lmVars
    /\ MatFrame

\* (mutant) driver.quit() placed after the return value instead of in finally
CloseSessionOnSuccess ==
    IF raised = "none"
    THEN /\ session' = "closed"
         /\ quit_calls' = quit_calls + 1
         /\ log' = Append(log, Ev("quit", "ok"))
    ELSE UNCHANGED <<session, quit_calls, log>>

\* driver.quit()
CloseSession ==
    /\ session' = "closed"
    /\ quit_calls' = quit_calls + 1
    /\ log' = Append(log, Ev("quit", "ok"))

\* finally: driver.quit(); then the return value or the exception reaches
\* the caller
Finally ==
    /\ pc = "finally"
    /\ CloseSession
    /\ result' = IF raised = "none" THEN "markup" ELSE raised
    /\ pc' = "done"
    /\ UNCHANGED <<max_clicks, click_count, raised>>
    /\ UNCHANGED lmVars
    /\ MatFrame

NextMat ==
    \/ OpenSession
    \/ FilterInputWait
    \/ FilterType
    \/ FilterOptionWait
    \/ FilterOptionClick
    \/ SearchWait
    \/ SearchClick
    \/ ReadyWait
    \/ LoopTest
    \/ LmWait
    \/ LmScroll
    \/ LmClick
    \/ LmJsClick
    \/ ReturnSource
    \/ Finally

SpecMat == InitMat /\ [][NextMat]_vars

-----------------------------------------------------------------------------
(* Properties of extract_html *)

\* positions of a command in the log, whatever its outcome
Pos(c) == {i \in 1..Len(log) : log[i].cmd = c}
Issued(c) == Pos(c) # {}
Before(c1, c2) == \A i \in Pos(c1), j \in Pos(c2) : i < j

LoadCmds == {"lm_wait", "lm_scroll", "lm_click", "lm_js_click"}
LoopPcs  == {"loop", "lm_wait", "lm_scroll", "lm_click", "lm_js_click", "return"}

\* C1: once the browser session has been opened it is closed exactly once
\* before the call ends, on every exit path: driver.quit() is never called
\* twice, the session stays open while the call is at work, and when the call
\* has ended (with markup or with an exception) the session is closed after
\* exactly one quit.
C1_SessionClosedExactlyOnce ==
    /\ quit_calls <= 1
    /\ Count("quit", "ok") = quit_calls
    /\ (pc \notin {"open", "done"} => session = "open" /\ quit_calls = 0)
    /\ (pc = "done" => session = "closed" /\ quit_calls = 1 /\ result # "none")

\* the call ended by the re-raised filter timeout, session closed
C1_Witness ==
    /\ pc = "done"
    /\ result = "TimeoutException"
    /\ session = "closed"
    /\ quit_calls = 1

\* C4: when the wait for the matching filter option times out, the call ends
\* with the timeout error and no markup, the Search button is never waited for
\* or clicked, no load-more command is issued, and the session is closed.
C4_FilterUnavailable ==
    Count("filter_option_wait", "timeout") > 0 =>
        /\ pc \in {"finally", "done"}
        /\ raised = "TimeoutException"
        /\ ~Issued("search_wait") /\ ~Issued("search_click")
        /\ \A c \in LoadCmds : ~Issued(c)
        /\ ~Issued("page_source")
        /\ click_count = 0
        /\ (pc = "done" =>
               result = "TimeoutException" /\ session = "closed" /\ quit_calls = 1)

C4_Witness ==
    /\ pc = "done"
    /\ Count("filter_option_wait", "timeout") = 1
    /\ Count("filter_type", "ok") = 1

\* some wait for the load-more control timed out and none succeeded
LoadMoreNeverClickable ==
    /\ Count("ready_wait", "timeout") + Count("lm_wait", "timeout") > 0
    /\ Count("ready_wait", "ok") + Count("lm_wait", "ok") = 0

\* C5: when the location filter was applied and every wait for the load-more
\* control timed out (the readiness wait, the wait in the loop), the call
\* returns the page markup with click_count = 0 and raises nothing.
C5_SingleScreen ==
    (/\ pc = "done"
     /\ Count("filter_option_click", "ok") = 1
     /\ LoadMoreNeverClickable) =>
        /\ result = "markup"
        /\ raised = "none"
        /\ click_count = 0
        /\ Count("page_source", "ok") = 1

\* both the readiness wait and the wait in the loop timed out
C5_Witness ==
    /\ pc = "done"
    /\ Count("filter_option_click", "ok") = 1
    /\ Count("ready_wait", "timeout") = 1
    /\ Count("lm_wait", "timeout") = 1
    /\ result = "markup"

\* C6: click_count equals the number of load-more clicks that completed
\* (direct or scripted); with max_clicks given it never exceeds max_clicks and
\* no load-more step is started once it has reached max_clicks (none at all
\* for max_clicks = 0); and the loop stops at the first step whose wait times
\* out: that wait is the last load-more command issued.
C6_LoadCounter ==
    /\ click_count = Count("lm_click", "ok") + Count("lm_js_click", "ok")
    /\ (max_clicks # None =>
           /\ click_count <= max_clicks
           /\ Cardinality(Pos("lm_wait")) <= max_clicks
           /\ Cardinality(Pos("lm_click")) <= max_clicks)
    /\ (pc \in LoadCmds => LoopCond)
    /\ \A i \in 1..Len(log) :
          log[i] = Ev("lm_wait", "timeout") =>
              /\ pc \in {"return", "finally", "done"}
              /\ \A j \in (i+1)..Len(log) : log[j].cmd \notin LoadCmds

\* the loop stopped because the counter reached max_clicks although the
\* control was still there; one of the clicks went through the fallback
C6_Witness ==
    /\ pc = "done"
    /\ max_clicks = 2
    /\ click_count = 2
    /\ Count("lm_js_click", "ok") = 1
    /\ Count("lm_wait", "timeout") = 0

\* C7 (as stated): whenever the call is in the load loop or has returned
\* markup, the Search button was clicked after the filter was applied and
\* before any load-more click attempt.
C7_SearchAlwaysTriggered ==
    (pc \in LoopPcs \/ result = "markup") =>
        /\ Count("search_click", "ok") = 1
        /\ Before("filter_option_click", "search_click")
        /\ Before("search_click", "lm_click")

\* C7 (amended): whenever the call is in the load loop or has returned markup,
\* the filter was applied, then the wait for the Search button ran, before any
\* load-more command; if that wait succeeded the Search button was clicked
\* before any load-more command; if it timed out the loop is entered with no
\* search click at all.
C7_SearchStepBeforeLoads ==
    (pc \in LoopPcs \/ result = "markup") =>
        /\ Count("filter_option_click", "ok") = 1
        /\ Cardinality(Pos("search_wait")) = 1
        /\ Before("filter_option_click", "search_wait")
        /\ \A c \in LoadCmds : Before("search_wait", c)
        /\ (Count("search_wait", "ok") = 1 =>
               /\ Count("search_click", "ok") = 1
               /\ Before("search_wait", "search_click")
               /\ \A c \in LoadCmds : Before("search_click", c))
        /\ (Count("search_wait", "timeout") = 1 => ~Issued("search_click"))

\* markup returned after a load-more click, the search never triggered
C7_Witness ==
    /\ result = "markup"
    /\ Count("search_wait", "timeout") = 1
    /\ click_count >= 1
    /\ ~Issued("search_click")

\* number of load-more clicks that completed among the first n log entries
ClicksDone(n) ==
    Cardinality({i \in 1..n : log[i] \in {Ev("lm_click", "ok"), Ev("lm_js_click", "ok")}})

\* C13: in every load-more step the control is scrolled into view right after
\* it was located and before any click; the direct click comes right after
\* the scroll; the script click is issued only right after a direct click
\* that failed by interception / not being interactable; scroll, direct click
\* and script click of a step all take the element that step located; and the
\* counter counts exactly the steps in which one of the two clicks completed.
C13_ScrollClickFallback ==
    /\ \A i \in 1..Len(log) :
          /\ (log[i].cmd = "lm_scroll" =>
                 i > 1 /\ log[i-1] = Ev("lm_wait", "ok"))
          /\ (log[i].cmd = "lm_click" =>
                 i > 1 /\ log[i-1] = Ev("lm_scroll", "ok"))
          /\ (log[i].cmd = "lm_js_click" =>
                 i > 1 /\ log[i-1] = Ev("lm_click", "intercepted"))
    /\ \A k \in 1..Len(targets) :
          /\ (targets[k].cmd = "lm_scroll" =>
                 targets[k].el =
                     Cardinality({j \in 1..k : targets[j].cmd = "lm_scroll"}))
          /\ (targets[k].cmd = "lm_click" =>
                 k > 1 /\ targets[k-1] = [cmd |-> "lm_scroll", el |-> targets[k].el])
          /\ (targets[k].cmd = "lm_js_click" =>
                 k > 1 /\ targets[k-1] = [cmd |-> "lm_click", el |-> targets[k].el])
    /\ click_count = ClicksDone(Len(log))
    /\ click_count <= Count("lm_wait", "ok")

\* a step whose direct click was intercepted and whose script click went through
C13_Witness ==
    /\ pc = "done"
    /\ click_count = 1
    /\ Count("lm_click", "intercepted") = 1
    /\ Count("lm_js_click", "ok") = 1
    /\ targets = << [cmd |-> "lm_scroll", el |-> 1],
                    [cmd |-> "lm_click", el |-> 1],
                    [cmd |-> "lm_js_click", el |-> 1] >>

LoadErrors == {Ev("lm_scroll", "error"), Ev("lm_click", "error"),
               Ev("lm_js_click", "error")}

\* C15: an error inside a load-more step other than the wait timeout (scroll,
\* direct click, script click fallback) ends the loop like exhaustion: the
\* counter is not incremented by that step, no further load-more command is
\* issued, nothing is raised, and the call returns the markup read after the
\* failure, with the session closed.
C15_StepErrorIsExhaustion ==
    \A i \in 1..Len(log) :
        log[i] \in LoadErrors =>
            /\ pc \in {"return", "finally", "done"}
            /\ raised = "none"
            /\ click_count = ClicksDone(i - 1)
            /\ \A j \in (i+1)..Len(log) : log[j].cmd \in {"page_source", "quit"}
            /\ (pc = "done" =>
                   /\ result = "markup"
                   /\ Count("page_source", "ok") = 1
                   /\ session = "closed"
                   /\ quit_calls = 1)

\* the script click fallback failed after one completed load
C15_Witness ==
    /\ pc = "done"
    /\ Count("lm_js_click", "error") = 1
    /\ click_count = 1
    /\ result = "markup"

-----------------------------------------------------------------------------
(***************************************************************************)
(* The response split of batch_parse                                       *)
(*                                                                         *)
(* A string is a sequence of atoms: the pipe character "|" or a non-empty  *)
(* piece of text without a pipe.  The split only tells pipes from the      *)
(* rest, so nothing else of the text is needed.                            *)
(***************************************************************************)

Pipe == "|"
Atoms == {Pipe, "Shang Salcedo Place", "sale", "lease"}
Strings(n) == UNION {[1..k -> Atoms] : k \in 0..n}

\* "|" in s
HasPipe(s) == \E i \in 1..Len(s) : s[i] = Pipe

FirstPipe(s) == CHOOSE i \in 1..Len(s) :
                    s[i] = Pipe /\ \A j \in 1..(i-1) : s[j] # Pipe
LastPipe(s)  == CHOOSE i \in 1..Len(s) :
                    s[i] = Pipe /\ \A j \in (i+1)..Len(s) : s[j] # Pipe

\* (mutant) s.rsplit("|", 1): cut at the last pipe
RSplitOnce(s) == <<SubSeq(s, 1, LastPipe(s) - 1), SubSeq(s, LastPipe(s) + 1, Len(s))>>

\* s.split("|", 1): cut at the first pipe, at most one cut
SplitOnce(s) == <<SubSeq(s, 1, FirstPipe(s) - 1), SubSeq(s, FirstPipe(s) + 1, Len(s))>>

\* s.split("|", 1) if "|" in s else [s, ""]
SplitResponse(s) == IF HasPipe(s) THEN SplitOnce(s) ELSE <<s, <<>>>>

SplitFrame == UNCHANGED <<matVars, normVars, cardVars, titleVars, listVars>>

InitSplit ==
    /\ spc = "start"
    /\ sin \in Strings(MaxRespLen)
    /\ sout = <<>>
    /\ MatIdle /\ NormIdle /\ CardIdle /\ TitleIdle /\ ListIdle

\* one element of the list comprehension of batch_parse
ApplySplit ==
    /\ spc = "start"
    /\ sout' = SplitResponse(sin)
    /\ spc' = "done"
    /\ UNCHANGED sin
    /\ SplitFrame

NextSplit == ApplySplit

SpecSplit == InitSplit /\ [][NextSplit]_vars

\* C8: the split cuts the response once, at its first pipe: the building is
\* the pipe-free text before it and the transaction type everything after it,
\* later pipes included; a response without a pipe is the building, with an
\* empty transaction type.  "Shang Salcedo Place|sale" gives
\* ("Shang Salcedo Place", "sale") and "|lease" gives ("", "lease").
C8_SplitAtFirstPipe ==
    spc = "done" =>
        /\ Len(sout) = 2
        /\ (HasPipe(sin) =>
               /\ sout[1] \o <<Pipe>> \o sout[2] = sin
               /\ ~HasPipe(sout[1]))
        /\ (~HasPipe(sin) => sout[1] = sin /\ sout[2] = <<>>)
        /\ (sin = <<"Shang Salcedo Place", Pipe, "sale">> =>
               sout = << <<"Shang Salcedo Place">>, <<"sale">> >>)
        /\ (sin = <<Pipe, "lease">> => sout = << <<>>, <<"lease">> >>)

\* a response with two pipes: the second one stays in the transaction type
C8_Witness ==
    /\ spc = "done"
    /\ sin = <<"Shang Salcedo Place", Pipe, Pipe>>
    /\ sout = << <<"Shang Salcedo Place">>, <<Pipe>> >>

-----------------------------------------------------------------------------
(***************************************************************************)
(* batch_parse: the normalization worker pool                              *)
(***************************************************************************)

\* the example titles of parser.main
SampleTitles == <<"Shang Salcedo Place 1BR for sale + parking",
                  "Ayala Triangle Tower for lease",
                  "Rockwell Proscenium 2BR",
                  "The Rise 3BR for rent",
                  "Avingon for sale/rent",
                  "Avingon for sale or rent">>

\* what the text-generation backend may answer: lines of the agreed grammar
\* and lines that break it (no pipe, a second pipe)
BackendResponses ==
    { <<"Shang Salcedo Place", Pipe, "sale">>,
      <<Pipe, "lease">>,
      <<"Rockwell Proscenium">>,
      <<"Avingon", Pipe, "sale", Pipe, "rent">> }

N == Len(titles)
Running == {i \in 1..N : fstate[i] = "running"}

NormFrame == UNCHANGED <<matVars, cardVars, titleVars, listVars, splitVars>>

\* batch_parse is handed the records of extract_listings, which raises on an
\* empty list: there is at least one title
InitNorm ==
    /\ bpc = "map"
    /\ \E n \in 1..MaxRecords : titles = SubSeq(SampleTitles, 1, n)
    /\ max_workers \in 1..MaxWorkers
    /\ fstate = [i \in 1..N |-> "new"]
    /\ resp = [i \in 1..N |-> "none"]
    /\ answer = [t \in {titles[i] : i \in 1..N} |-> "none"]
    /\ completed = <<>>
    /\ calls = [i \in 1..N |-> 0]
    /\ parsed = <<>>
    /\ bresult = <<>>
    /\ MatIdle /\ CardIdle /\ SplitIdle /\ TitleIdle /\ ListIdle

\* executor.map: one future per title, submitted in input order
SubmitAll ==
    /\ bpc = "map"
    /\ fstate' = [i \in 1..N |-> "pending"]
    /\ bpc' = "collect"
    /\ UNCHANGED <<titles, max_workers, resp, answer, completed, calls, parsed, bresult>>
    /\ NormFrame

\* a worker thread takes the oldest queued work item and calls
\* parse_with_ollama on its title; the pool has at most max_workers threads
StartCall(i) ==
    /\ bpc \in {"collect", "shutdown"}
    /\ fstate[i] = "pending"
    /\ \A j \in 1..(i-1) : fstate[j] # "pending"
    /\ Cardinality(Running) < max_workers
    /\ fstate' = [fstate EXCEPT ![i] = "running"]
    /\ calls' = [calls EXCEPT ![i] = @ + 1]
    /\ UNCHANGED <<bpc, titles, max_workers, resp, answer, completed, parsed, bresult>>
    /\ NormFrame

\* chain.invoke returned a response string for the title of record i
CallReturns(i) ==
    /\ fstate[i] = "running"
    /\ \E r \in BackendResponses :
          /\ resp' = [resp EXCEPT ![i] = r]
          /\ answer' = [answer EXCEPT ![titles[i]] = r]
    /\ fstate' = [fstate EXCEPT ![i] = "done"]
    /\ completed' = Append(completed, i)
    /\ UNCHANGED <<bpc, titles, max_workers, calls, parsed, bresult>>
    /\ NormFrame

\* chain.invoke raised: the future holds the exception
CallRaises(i) ==
    /\ fstate[i] = "running"
    /\ resp' = [resp EXCEPT ![i] = "error"]
    /\ answer' = [answer EXCEPT ![titles[i]] = "error"]
    /\ fstate' = [fstate EXCEPT ![i] = "failed"]
    /\ completed' = Append(completed, i)
    /\ UNCHANGED <<bpc, titles, max_workers, calls, parsed, bresult>>
    /\ NormFrame

\* (mutant) results taken in completion order
NextFutureCompleted == completed[Len(parsed) + 1]

\* the result iterator of executor.map pops the futures in submission order
NextFuture == Len(parsed) + 1

\* list(executor.map(...)): the calling thread takes the value of the next
\* future once it is there
CollectResult ==
    /\ bpc = "collect"
    /\ Len(parsed) < N
    /\ Len(completed) > Len(parsed)    \* implied: the futures before it are done
    /\ fstate[NextFuture] = "done"
    /\ parsed' = Append(parsed, resp[NextFuture])
    /\ bpc' = IF Len(parsed') = N THEN "shutdown" ELSE "collect"
    /\ UNCHANGED <<titles, max_workers, fstate, resp, answer, completed, calls, bresult>>
    /\ NormFrame

\* the next future holds an exception: result() re-raises it, the iterator
\* cancels the futures it has not yielded and that have not started, and the
\* exception leaves the with block
CollectRaises ==
    /\ bpc = "collect"
    /\ Len(parsed) < N
    /\ Len(completed) > Len(parsed)    \* implied: the futures before it are done
    /\ fstate[NextFuture] = "failed"
    /\ fstate' = [i \in 1..N |->
                     IF i > NextFuture /\ fstate[i] = "pending"
                     THEN "cancelled" ELSE fstate[i]]
    /\ bpc' = "shutdown_raising"
    /\ UNCHANGED <<titles, max_workers, resp, answer, completed, calls, parsed, bresult>>
    /\ NormFrame

\* df[["building", "trans_type"]] = pd.DataFrame([...], index=df.index)
MergeColumns ==
    [i \in 1..N |-> [building   |-> SplitResponse(parsed[i])[1],
                     trans_type |-> SplitResponse(parsed[i])[2]]]

\* leaving the with block waits for the worker threads (shutdown(wait=True));
\* then the columns are written and df is returned
ShutdownAndMerge ==
    /\ bpc = "shutdown"
    /\ Running = {}
    /\ bresult' = MergeColumns
    /\ bpc' = "returned"
    /\ UNCHANGED <<titles, max_workers, fstate, resp, answer, completed, calls, parsed>>
    /\ NormFrame

\* leaving the with block with the exception in flight: wait for the running
\* calls, then the exception leaves batch_parse
ShutdownAndRaise ==
    /\ bpc = "shutdown_raising"
    /\ Running = {}
    /\ bpc' = "raised"
    /\ UNCHANGED <<titles, max_workers, fstate, resp, answer, completed, calls, parsed, bresult>>
    /\ NormFrame

NextNorm ==
    \/ SubmitAll
    \/ \E i \in 1..N : StartCall(i)
    \/ \E i \in 1..N : CallReturns(i)
    \/ \E i \in 1..N : CallRaises(i)
    \/ CollectResult
    \/ CollectRaises
    \/ ShutdownAndMerge
    \/ ShutdownAndRaise

SpecNorm == InitNorm /\ [][NextNorm]_vars

-----------------------------------------------------------------------------
(* Properties of batch_parse *)

Terminal == bpc \in {"returned", "raised"}
Failed == {i \in 1..N : fstate[i] = "failed"}

\* C2: a backend call that raises aborts neither its siblings nor the batch:
\* when batch_parse has ended it has returned, no sibling call was cancelled,
\* and every record whose call did not fail carries the split of its response.
C2_FailureIsolated ==
    (Terminal /\ Failed # {}) =>
        /\ bpc = "returned"
        /\ \A i \in 1..N : fstate[i] # "cancelled"
        /\ Len(bresult) = N
        /\ \A i \in 1..N \ Failed :
              /\ bresult[i].building = SplitResponse(resp[i])[1]
              /\ bresult[i].trans_type = SplitResponse(resp[i])[2]

\* C3: when batch_parse returns, it returns one row per input record, in input
\* order: row i carries the split of what the backend answered to the title
\* of record i, whatever the order in which the calls completed; and it
\* returns whenever no backend call raised.
C3_PositionalMerge ==
    /\ (bpc = "returned" =>
           /\ Len(bresult) = N
           /\ \A i \in 1..N :
                 /\ answer[titles[i]] \in BackendResponses
                 /\ bresult[i].building = SplitResponse(answer[titles[i]])[1]
                 /\ bresult[i].trans_type = SplitResponse(answer[titles[i]])[2])
    /\ (bpc = "raised" => Failed # {})

\* two records whose calls completed in reverse order with different answers
C3_Witness ==
    /\ bpc = "returned"
    /\ N = 2
    /\ max_workers = 2
    /\ completed = <<2, 1>>
    /\ answer[titles[1]] = <<Pipe, "lease">>
    /\ answer[titles[2]] = <<"Shang Salcedo Place", Pipe, "sale">>
    /\ bresult[1].trans_type = <<"lease">>

TransactionTypes == { <<"sale">>, <<"rent">>, <<"lease">>, <<>> }

\* C9: after batch_parse has returned, the trans_type of every record is one
\* of sale, rent, lease or the empty string, whatever the backend answered.
C9_TransTypeEnum ==
    bpc = "returned" =>
        \A i \in 1..N : bresult[i].trans_type \in TransactionTypes

\* C14: at most max_workers backend calls are in flight at any moment, the
\* backend is called exactly once for every input record (never twice, and
\* once batch_parse has ended every record has had its call), and batch_parse
\* ends only after all calls have finished.
C14_BoundedPoolOneCallEach ==
    /\ Cardinality(Running) <= max_workers
    /\ \A i \in 1..N : calls[i] <= 1
    /\ (Terminal =>
           /\ Running = {}
           /\ \A i \in 1..N : calls[i] = 1 /\ fstate[i] \in {"done", "failed"})

-----------------------------------------------------------------------------
(***************************************************************************)
(* extract_from_card: classification of the feature values                 *)
(*                                                                         *)
(* The features div is the sequence of its children: img nodes (with the   *)
(* icon file their src names) and span nodes with a title attribute (the   *)
(* value, a sequence of characters).                                       *)
(***************************************************************************)

Digits == {"0", "1", "2", "3", "4", "5", "6", "7", "8", "9"}
EmptyStr == <<>>

\* sub in s
Contains(s, sub) ==
    \E i \in 1..(Len(s) - Len(sub) + 1) : SubSeq(s, i, i + Len(sub) - 1) = sub

\* s.isdigit(): at least one character, all of them digits
IsDigit(s) == Len(s) > 0 /\ \A i \in 1..Len(s) : s[i] \in Digits

Sqm == <<"s", "q", "m">>

FeatureValues ==
    { <<"3">>,
      <<"1", "2">>,
      <<"8", "5", " ", "s", "q", "m">>,
      <<"N", "e", "w">>,
      EmptyStr }

IconFiles == {"ic_bed.svg", "ic_bath.svg", "ic_floor.svg"}

Img(f)  == [tag |-> "img", src |-> f, title |-> EmptyStr]
Span(v) == [tag |-> "span", src |-> "", title |-> v]

FeatureNodes == {Img(f) : f \in IconFiles} \cup {Span(v) : v \in FeatureValues}
Cards(n) == UNION {[1..k -> FeatureNodes] : k \in 0..n}

\* features_div.find_all("span", {"title": True}): positions of the spans
RECURSIVE SpanPositions(_, _)
SpanPositions(c, k) ==
    IF k > Len(c) THEN <<>>
    ELSE IF c[k].tag = "span" THEN <<k>> \o SpanPositions(c, k + 1)
    ELSE SpanPositions(c, k + 1)

feature_spans == SpanPositions(card, 1)

\* span.find_previous_sibling("img"): position of the nearest img before the
\* child at position k, 0 when there is none
PrevImg(k) ==
    IF \E j \in 1..(k-1) : card[j].tag = "img"
    THEN CHOOSE j \in 1..(k-1) :
             card[j].tag = "img" /\ \A m \in (j+1)..(k-1) : card[m].tag # "img"
    ELSE 0

IsBed(k)  == k # 0 /\ card[k].src = "ic_bed.svg"
IsBath(k) == k # 0 /\ card[k].src = "ic_bath.svg"

\* the if / elif / else of the feature loop, applied to the span at position k
Classify(r, k) ==
    LET title_val == card[k].title IN
    IF Contains(title_val, Sqm) THEN [r EXCEPT !.size = title_val]
    ELSE IF IsDigit(title_val) THEN
        IF IsBed(PrevImg(k)) THEN [r EXCEPT !.bedrooms = title_val]
        ELSE IF IsBath(PrevImg(k)) THEN [r EXCEPT !.bathrooms = title_val]
        ELSE r
    ELSE [r EXCEPT !.remarks = title_val]

CardFrame == UNCHANGED <<matVars, normVars, titleVars, listVars, splitVars>>

InitCard ==
    /\ cpc = "features"
    /\ card \in Cards(MaxNodes)
    /\ cidx = 1
    /\ rec = [size |-> EmptyStr, bedrooms |-> EmptyStr,
              bathrooms |-> EmptyStr, remarks |-> EmptyStr]
    /\ MatIdle /\ NormIdle /\ SplitIdle /\ TitleIdle /\ ListIdle

\* one iteration of: for span in feature_spans
ClassifyFeature ==
    /\ cpc = "features"
    /\ cidx <= Len(feature_spans)
    /\ rec' = Classify(rec, feature_spans[cidx])
    /\ cidx' = cidx + 1
    /\ UNCHANGED <<cpc, card>>
    /\ CardFrame

\* the loop is over: the record is returned
ReturnRecord ==
    /\ cpc = "features"
    /\ cidx > Len(feature_spans)
    /\ cpc' = "done"
    /\ UNCHANGED <<card, cidx, rec>>
    /\ CardFrame

NextCard ==
    \/ ClassifyFeature
    \/ ReturnRecord

SpecCard == InitCard /\ [][NextCard]_vars

(* Properties of extract_from_card *)

\* no bed or bath icon among the children before position k
NoIconBefore(k) ==
    \A j \in 1..(k-1) :
        ~(card[j].tag = "img" /\ card[j].src \in {"ic_bed.svg", "ic_bath.svg"})

\* C10: a purely numeric feature value with no bed or bath icon before it is
\* classified as remarks: right after its span has been visited, the remarks
\* field of the record holds the value.
C10_NumericWithoutIconIsRemarks ==
    \A n \in 1..Len(feature_spans) :
        (/\ cidx = n + 1
         /\ IsDigit(card[feature_spans[n]].title)
         /\ NoIconBefore(feature_spans[n])) =>
            rec.remarks = card[feature_spans[n]].title

-----------------------------------------------------------------------------
(***************************************************************************)
(* extract_from_card: the title                                            *)
(*                                                                         *)
(* The card is the sequence of its <p> elements; each has or has not a     *)
(* title attribute and has a text, both sequences of characters.           *)
(***************************************************************************)

Whitespace == {" ", "\n", "\t"}

\* s.strip()
RECURSIVE LStrip(_)
LStrip(s) == IF s # <<>> /\ Head(s) \in Whitespace THEN LStrip(Tail(s)) ELSE s
RECURSIVE RStrip(_)
RStrip(s) == IF s # <<>> /\ s[Len(s)] \in Whitespace
             THEN RStrip(SubSeq(s, 1, Len(s) - 1)) ELSE s
Strip(s) == RStrip(LStrip(s))

P(has, attr, txt) == [has_title |-> has, title |-> attr, text |-> txt]

TitleAttrs == { EmptyStr, <<"C", "o", "n", "d", "o">> }
Texts == { EmptyStr, <<" ">>, <<" ", "L", "o", "f", "t", " ">>, <<"U", "n", "i", "t">> }

PNodes == {P(FALSE, EmptyStr, t) : t \in Texts}
              \cup {P(TRUE, a, t) : a \in TitleAttrs, t \in Texts}
PTagSeqs(n) == UNION {[1..k -> PNodes] : k \in 0..n}

\* listing.find("p", {"title": True}): position of the first <p> carrying a
\* title attribute, whatever its value; 0 for None
FindTitled(ps) ==
    IF \E i \in 1..Len(ps) : ps[i].has_title
    THEN CHOOSE i \in 1..Len(ps) :
             ps[i].has_title /\ \A j \in 1..(i-1) : ~ps[j].has_title
    ELSE 0

\* if p.text and len(p.text.strip()) > 0
HasText(n) == n.text # EmptyStr /\ Len(Strip(n.text)) > 0

\* the for loop over listing.find_all("p"): the stripped text of the first
\* <p> with text, "" when there is none
FirstText(ps) ==
    IF \E i \in 1..Len(ps) : HasText(ps[i])
    THEN Strip(ps[CHOOSE i \in 1..Len(ps) :
                      HasText(ps[i]) /\ \A j \in 1..(i-1) : ~HasText(ps[j])].text)
    ELSE EmptyStr

\* title_tag = listing.find(...); if title_tag: title = title_tag["title"]
\* else: the loop.  A Tag is truthy whatever its attributes hold.
ExtractTitle(ps) ==
    IF FindTitled(ps) # 0 THEN ps[FindTitled(ps)].title ELSE FirstText(ps)

TitleFrame == UNCHANGED <<matVars, normVars, cardVars, listVars, splitVars>>

InitTitle ==
    /\ tpc = "title"
    /\ p_tags \in PTagSeqs(MaxPTags)
    /\ title = EmptyStr
    /\ MatIdle /\ NormIdle /\ CardIdle /\ ListIdle /\ SplitIdle

\* the title part of extract_from_card
SetTitle ==
    /\ tpc = "title"
    /\ title' = ExtractTitle(p_tags)
    /\ tpc' = "done"
    /\ UNCHANGED p_tags
    /\ TitleFrame

NextTitle == SetTitle

SpecTitle == InitTitle /\ [][NextTitle]_vars

(* Properties of the title extraction *)

\* the value of the explicit title attribute: that of the first <p> carrying
\* one, "" when no <p> carries one
ExplicitTitle ==
    IF \E i \in 1..Len(p_tags) : p_tags[i].has_title
    THEN p_tags[CHOOSE i \in 1..Len(p_tags) :
                    p_tags[i].has_title /\ \A j \in 1..(i-1) : ~p_tags[j].has_title].title
    ELSE EmptyStr

\* C11: the first extractor that yields a non-empty value wins: a non-empty
\* explicit title attribute is the title; when the attribute is absent or
\* empty the title is the first non-empty (stripped) text among the <p>
\* elements, "" when there is none.
C11_TitleFallback ==
    tpc = "done" =>
        /\ (ExplicitTitle # EmptyStr => title = ExplicitTitle)
        /\ (ExplicitTitle = EmptyStr =>
               \/ /\ \A i \in 1..Len(p_tags) : Strip(p_tags[i].text) = EmptyStr
                  /\ title = EmptyStr
               \/ \E i \in 1..Len(p_tags) :
                     /\ Strip(p_tags[i].text) # EmptyStr
                     /\ \A j \in 1..(i-1) : Strip(p_tags[j].text) = EmptyStr
                     /\ title = Strip(p_tags[i].text))

-----------------------------------------------------------------------------
(***************************************************************************)
(* extract_listings: the listing collector                                 *)
(*                                                                         *)
(* The page is the sequence of its <div> elements; each has or has not a   *)
(* data-testid attribute (a sequence of atoms) and holds <p> elements.     *)
(***************************************************************************)

CardPrefix == <<"listing-card-">>

\* s.startswith(prefix)
StartsWith(s, prefix) ==
    Len(s) >= Len(prefix) /\ SubSeq(s, 1, Len(prefix)) = prefix

Div(has, id, ps) == [has_testid |-> has, testid |-> id, p_tags |-> ps]

TestIds == { <<"listing-card-", "1">>, <<"ad-", "listing-card-">> }

SampleCards == { <<P(TRUE, <<"C", "o", "n", "d", "o">>, EmptyStr)>>,
                 <<P(FALSE, EmptyStr, <<" ", "L", "o", "f", "t", " ">>)>> }

Divs == {Div(FALSE, EmptyStr, ps) : ps \in SampleCards}
            \cup {Div(TRUE, id, ps) : id \in TestIds, ps \in SampleCards}
Pages(n) == UNION {[1..k -> Divs] : k \in 0..n}

\* lambda x: x and x.startswith("listing-card-")
IsListingCard(d) == d.has_testid /\ d.testid # EmptyStr /\ StartsWith(d.testid, CardPrefix)

\* soup.find_all("div", {"data-testid": ...}): positions of the listing cards
RECURSIVE CardPositions(_, _)
CardPositions(h, k) ==
    IF k > Len(h) THEN <<>>
    ELSE IF IsListingCard(h[k]) THEN <<k>> \o CardPositions(h, k + 1)
    ELSE CardPositions(h, k + 1)

\* the record extract_from_card returns for a card (its title)
extract_from_card(listing) == [title |-> ExtractTitle(listing.p_tags)]

\* (mutant) the emptiness test compares with None: never true for a list
NoListingsIsNone(l) == FALSE

\* if not listings
NoListings(l) == Len(l) = 0

ListFrame == UNCHANGED <<matVars, normVars, cardVars, titleVars, splitVars>>

InitList ==
    /\ lpc = "cards"
    /\ html \in Pages(MaxDivs)
    /\ lidx = 1
    /\ listings = <<>>
    /\ lresult = "none"
    /\ MatIdle /\ NormIdle /\ CardIdle /\ TitleIdle /\ SplitIdle

\* one iteration of: for listing in soup.find_all(...): listings.append(...)
AppendListing ==
    /\ lpc = "cards"
    /\ lidx <= Len(CardPositions(html, 1))
    /\ listings' = Append(listings, extract_from_card(html[CardPositions(html, 1)[lidx]]))
    /\ lidx' = lidx + 1
    /\ UNCHANGED <<lpc, html, lresult>>
    /\ ListFrame

\* the loop is over and the list is empty: raise ValueError
RaiseNoListings ==
    /\ lpc = "cards"
    /\ lidx > Len(CardPositions(html, 1))
    /\ NoListings(listings)
    /\ lresult' = "ValueError"
    /\ lpc' = "raised"
    /\ UNCHANGED <<html, lidx, listings>>
    /\ ListFrame

\* the loop is over: return page_title, pd.DataFrame(listings)
ReturnListings ==
    /\ lpc = "cards"
    /\ lidx > Len(CardPositions(html, 1))
    /\ ~NoListings(listings)
    /\ lresult' = "DataFrame"
    /\ lpc' = "returned"
    /\ UNCHANGED <<html, lidx, listings>>
    /\ ListFrame

NextList ==
    \/ AppendListing
    \/ RaiseNoListings
    \/ ReturnListings

SpecList == InitList /\ [][NextList]_vars

(* Properties of extract_listings *)

\* the divs of the page that are listing containers
Containers == {i \in 1..Len(html) :
                  html[i].has_testid /\ html[i].testid = <<"listing-card-", "1">>}

\* the k-th container of the page, in document order
Container(k) ==
    CHOOSE i \in Containers : Cardinality({j \in Containers : j <= i}) = k

\* C12: extract_listings ends with the no-listings error exactly when the page
\* holds no listing container, and then nothing is returned; when the page
\* holds at least one container it returns one record per container, in
\* document order.
C12_NoListingsRaises ==
    /\ (lpc = "raised" =>
           Containers = {} /\ lresult = "ValueError" /\ listings = <<>>)
    /\ (lpc = "returned" =>
           /\ Containers # {}
           /\ lresult = "DataFrame"
           /\ Len(listings) = Cardinality(Containers)
           /\ \A k \in 1..Len(listings) :
                 listings[k] = [title |-> ExtractTitle(html[Container(k)].p_tags)])
    /\ (lpc = "cards" => lresult = "none")

\* a page with divs but none of them a listing card
C12_Witness ==
    /\ lpc = "raised"
    /\ Len(html) = 2
    /\ html[1].has_testid /\ html[1].testid = <<"ad-", "listing-card-">>
    /\ ~html[2].has_testid

=============================================================================
